---- MODULE Spec2Model ----
(***************************************************************************)
(* Model of winerror-rs (src/lib.rs): the ErrorCode value type, its        *)
(* validated constructor, its accessors, the message append operation and  *)
(* the packing of (severity, facility, id) into one 32-bit word.           *)
(*                                                                         *)
(* Integers are Rust i32: values in -2^31 .. 2^31-1, bitwise operators are *)
(* computed on the two's complement bit pattern.  Strings and vectors are  *)
(* owned heap buffers: a String is a cell holding its text, a Vec<String>  *)
(* is a cell holding the addresses of its Strings.                         *)
(***************************************************************************)
EXTENDS Integers, Sequences, FiniteSets, TLC

VARIABLES heap, codes, caller, appended, out

vars == <<heap, codes, caller, appended, out>>

(***************************************************************************)
(* Bounds of the model.                                                    *)
(***************************************************************************)
MaxCodes == 2
MaxMessage == 3
MaxLines == 2

Handles == 1..MaxCodes

(***************************************************************************)
(* The heap.  Every owner allocates from a region of its own: the binding  *)
(* h holds the String of its symbolic name at NameAddr(h), the buffer of   *)
(* its Vec<String> at VecAddr(h) and the String pushed as line i right     *)
(* after it; the caller's Vec<String> holds line i at CallerAddr(i).       *)
(***************************************************************************)
Region == 2 + MaxMessage
HeapSize == MaxCodes * Region + MaxLines
Addr == 1..HeapSize
NameAddr(h) == (h - 1) * Region + 1
VecAddr(h) == NameAddr(h) + 1
CallerAddr(i) == MaxCodes * Region + i

FreeCell == [kind |-> "free", s |-> "", items |-> <<>>]
StrCell(s) == [kind |-> "str", s |-> s, items |-> <<>>]
VecCell(items) == [kind |-> "vec", s |-> "", items |-> items]

(***************************************************************************)
(* i32 arithmetic on the two's complement bit pattern.                     *)
(***************************************************************************)
I32Max == 2147483647
I32Min == (-I32Max) - 1

\* bits 0..30 of x as a natural number
Low31(x) == IF x >= 0 THEN x ELSE (x + I32Max) + 1

\* the i32 whose bit 31 is sign and whose bits 0..30 are low
FromBits(sign, low) == IF sign THEN (low - I32Max) - 1 ELSE low

RECURSIVE AndNat(_, _)
AndNat(a, b) ==
    IF a = 0 \/ b = 0 THEN 0
    ELSE (a % 2) * (b % 2) + 2 * AndNat(a \div 2, b \div 2)

RECURSIVE OrNat(_, _)
OrNat(a, b) ==
    IF a = 0 THEN b
    ELSE IF b = 0 THEN a
    ELSE (IF a % 2 = 1 \/ b % 2 = 1 THEN 1 ELSE 0) + 2 * OrNat(a \div 2, b \div 2)

\* x & y on i32
BitAnd(x, y) == FromBits(x < 0 /\ y < 0, AndNat(Low31(x), Low31(y)))

\* x | y on i32
BitOr(x, y) == FromBits(x < 0 \/ y < 0, OrNat(Low31(x), Low31(y)))

\* x << n on i32, 1 <= n <= 31: bits shifted past bit 31 are dropped and
\* bit 31-n becomes the sign bit (no overflow check on the shifted value)
Shl(x, n) ==
    LET low == Low31(x)
        cut == 2 ^ (31 - n)
    IN  FromBits((low \div cut) % 2 = 1, (low % cut) * (2 ^ n))

(***************************************************************************)
(* Literals of ErrorCode::new and ErrorCode::value.  The masks are written *)
(* 0xFFFF0000, 0xFFFFFFFC and 0xFFFFF000 under allow(overflowing_literals) *)
(* and have type i32, so they wrap to negative values.                     *)
(***************************************************************************)
IdMask == -65536
SeverityMask == -4
FacilityMask == -4096
SeverityShift == 30
FacilityShift == 16

(***************************************************************************)
(* Result<ErrorCode, ErrorCodeMemberError> as a value.                     *)
(***************************************************************************)
NoCode == [id |-> 0, severity |-> 0, facility |-> 0, symbolic_name |-> "", message |-> <<>>]

Ok(code) == [tag |-> "Ok", err |-> 0, code |-> code]

Err(kind, v) == [tag |-> kind, err |-> v, code |-> NoCode]

(***************************************************************************)
(* Variants of the definitions below, each with one plausible slip, used   *)
(* to show that the properties depend on the code as written.              *)
(***************************************************************************)
\* new with every mask one bit too wide (0xFFFF8000, 0xFFFFFFFE, 0xFFFFF800)
new_narrow(p_id, p_severity, p_facility, p_symbolic_name) ==
    IF BitAnd(p_id, -32768) > 0 THEN Err("WrongId", p_id)
    ELSE IF BitAnd(p_severity, -2) > 0 THEN Err("WrongSeverity", p_severity)
    ELSE IF BitAnd(p_facility, -2048) > 0 THEN Err("WrongFacility", p_facility)
    ELSE Ok([id |-> p_id, severity |-> p_severity, facility |-> p_facility,
             symbolic_name |-> p_symbolic_name, message |-> <<>>])

(***************************************************************************)
(* ErrorCode::new.  `a & MASK > 0` parses as `(a & MASK) > 0`, a signed    *)
(* comparison of an i32.                                                   *)
(***************************************************************************)
new(p_id, p_severity, p_facility, p_symbolic_name) ==
    IF BitAnd(p_id, IdMask) > 0 THEN Err("WrongId", p_id)
    ELSE IF BitAnd(p_severity, SeverityMask) > 0 THEN Err("WrongSeverity", p_severity)
    ELSE IF BitAnd(p_facility, FacilityMask) > 0 THEN Err("WrongFacility", p_facility)
    ELSE Ok([id |-> p_id, severity |-> p_severity, facility |-> p_facility,
             symbolic_name |-> p_symbolic_name, message |-> <<>>])

(***************************************************************************)
(* Accessors.  self is an ErrorCode in memory: its integer fields and the  *)
(* addresses of its symbolic_name String and of its message Vec.           *)
(***************************************************************************)
id(self) == self.id

severity(self) == self.severity

facility(self) == self.facility

symbolic_name(hp, self) == hp[self.symbolic_name].s

message(hp, self) ==
    [i \in 1..Len(hp[self.message].items) |-> hp[hp[self.message].items[i]].s]

\* value with severity shifted by 29 (the HRESULT customer bit position)
value_shift29(self) ==
    BitOr(BitOr(Shl(self.severity, 29), Shl(self.facility, FacilityShift)), self.id)

\* value with facility shifted by 15, overlapping the top bit of id
value_fac15(self) ==
    BitOr(BitOr(Shl(self.severity, SeverityShift), Shl(self.facility, 15)), self.id)

value(self) ==
    BitOr(BitOr(Shl(self.severity, SeverityShift), Shl(self.facility, FacilityShift)),
          self.id)

(***************************************************************************)
(* ErrorCode::set_message: for each String of the borrowed slice, in       *)
(* order, a new String with the same text is pushed onto self.message.     *)
(* lines is the slice: the addresses of the caller's Strings.  The result  *)
(* is the heap after the call.                                             *)
(***************************************************************************)
\* set_message that replaces the message by the slice (self.message = lines.to_vec())
set_message_replace(hp, self, lines) ==
    [a \in Addr |->
        IF a = self.message
        THEN VecCell([i \in 1..Len(lines) |-> self.message + i])
        ELSE IF a > self.message /\ a <= self.message + Len(lines)
        THEN StrCell(hp[lines[a - self.message]].s)
        ELSE hp[a]]

\* set_message that also appends each line to the symbolic_name String
RECURSIVE set_message_clobber(_, _, _)
set_message_clobber(hp, self, lines) ==
    IF lines = <<>> THEN hp
    ELSE LET items == hp[self.message].items
             a == self.message + Len(items) + 1
             hp1 == [hp EXCEPT ![a] = StrCell(hp[Head(lines)].s),
                               ![self.message] = VecCell(Append(items, a)),
                               ![self.symbolic_name] = StrCell(hp[Head(lines)].s)]
         IN  set_message_clobber(hp1, self, Tail(lines))

RECURSIVE set_message(_, _, _)
set_message(hp, self, lines) ==
    IF lines = <<>> THEN hp
    ELSE LET items == hp[self.message].items
             a == self.message + Len(items) + 1
             hp1 == [hp EXCEPT ![a] = StrCell(hp[Head(lines)].s),
                               ![self.message] = VecCell(Append(items, a))]
         IN  set_message(hp1, self, Tail(lines))

(***************************************************************************)
(* #[derive(Clone)] on ErrorCode: the integer fields are copied, the       *)
(* String and the Vec<String> are cloned into the buffers of the new       *)
(* value, whose region starts at base.  The result is the heap after the   *)
(* call; the new value is cloned_code(self, base).                         *)
(***************************************************************************)
\* a clone that shares the message buffer of the original (a shallow copy)
cloned_code_shared(self, base) ==
    [id |-> self.id, severity |-> self.severity, facility |-> self.facility,
     symbolic_name |-> base, message |-> self.message]

cloned_code(self, base) ==
    [id |-> self.id, severity |-> self.severity, facility |-> self.facility,
     symbolic_name |-> base, message |-> base + 1]

clone(hp, self, base) ==
    LET src == hp[self.message].items
        n == Len(src)
    IN  [a \in Addr |->
            IF a = base THEN StrCell(hp[self.symbolic_name].s)
            ELSE IF a = base + 1 THEN VecCell([i \in 1..n |-> base + 1 + i])
            ELSE IF a > base + 1 /\ a <= base + 1 + n THEN StrCell(hp[src[a - base - 1]].s)
            ELSE hp[a]]

(***************************************************************************)
(* State.                                                                  *)
(*   heap      the Strings and Vec buffers, by address                     *)
(*   codes     per binding h: the Result of the ErrorCode::new call that   *)
(*             initialised it (or the clone stored in it), with the        *)
(*             arguments of that call                                      *)
(*   caller    the caller's Vec<String>, slices of which are passed to     *)
(*             set_message: the addresses of its Strings                   *)
(*   appended  per binding, the texts passed to set_message so far, in     *)
(*             call order (history)                                        *)
(*   out       per binding, the i32 returned by the last value() call      *)
(***************************************************************************)
NoObj == [id |-> 0, severity |-> 0, facility |-> 0, symbolic_name |-> 0, message |-> 0]
NoArgs == [id |-> 0, severity |-> 0, facility |-> 0, symbolic_name |-> ""]
NoneSlot == [tag |-> "None", err |-> 0, args |-> NoArgs, obj |-> NoObj]
NoOut == [set |-> FALSE, v |-> 0]

Init ==
    /\ heap = [a \in Addr |-> FreeCell]
    /\ codes = [h \in Handles |-> NoneSlot]
    /\ caller = <<>>
    /\ appended = [h \in Handles |-> <<>>]
    /\ out = [h \in Handles |-> NoOut]

Live(h) == codes[h].tag = "Ok"

\* the texts of a slice of Strings
Texts(hp, lines) == [i \in 1..Len(lines) |-> hp[lines[i]].s]

(***************************************************************************)
(* let h = ErrorCode::new(id, severity, facility, symbolic_name): on Ok    *)
(* the value owns String::from(symbolic_name) and Vec::new(); on Err no    *)
(* value is produced.                                                      *)
(***************************************************************************)
New(h, p_id, p_severity, p_facility, p_symbolic_name) ==
    /\ codes[h].tag = "None"
    /\ LET r == new(p_id, p_severity, p_facility, p_symbolic_name)
           a == [id |-> p_id, severity |-> p_severity, facility |-> p_facility,
                 symbolic_name |-> p_symbolic_name]
       IN  IF r.tag = "Ok"
           THEN /\ heap' = [heap EXCEPT ![NameAddr(h)] = StrCell(r.code.symbolic_name),
                                        ![VecAddr(h)] = VecCell(r.code.message)]
                /\ codes' = [codes EXCEPT ![h] =
                       [tag |-> "Ok", err |-> 0, args |-> a,
                        obj |-> [id |-> r.code.id, severity |-> r.code.severity,
                                 facility |-> r.code.facility,
                                 symbolic_name |-> NameAddr(h), message |-> VecAddr(h)]]]
           ELSE /\ heap' = heap
                /\ codes' = [codes EXCEPT ![h] =
                       [tag |-> r.tag, err |-> r.err, args |-> a, obj |-> NoObj]]
    /\ UNCHANGED <<caller, appended, out>>

(***************************************************************************)
(* h.set_message(&caller[0..k])                                            *)
(***************************************************************************)
SetMessage(h, k) ==
    /\ Live(h)
    /\ k <= Len(caller)
    /\ Len(heap[codes[h].obj.message].items) + k <= MaxMessage
    /\ heap' = set_message(heap, codes[h].obj, SubSeq(caller, 1, k))
    /\ appended' = [appended EXCEPT ![h] = @ \o Texts(heap, SubSeq(caller, 1, k))]
    /\ UNCHANGED <<codes, caller, out>>

(***************************************************************************)
(* let t = h.clone()                                                       *)
(***************************************************************************)
Clone(h, t) ==
    /\ Live(h)
    /\ codes[t].tag = "None"
    /\ heap' = clone(heap, codes[h].obj, NameAddr(t))
    /\ codes' = [codes EXCEPT ![t] =
           [tag |-> "Ok", err |-> 0, args |-> codes[h].args,
            obj |-> cloned_code(codes[h].obj, NameAddr(t))]]
    /\ appended' = [appended EXCEPT ![t] = appended[h]]
    /\ UNCHANGED <<caller, out>>

(***************************************************************************)
(* let v = h.value()                                                       *)
(***************************************************************************)
Value(h) ==
    /\ Live(h)
    /\ ~out[h].set
    /\ out' = [out EXCEPT ![h] = [set |-> TRUE, v |-> value(codes[h].obj)]]
    /\ UNCHANGED <<heap, codes, caller, appended>>

(***************************************************************************)
(* The caller's own Vec<String>, outside any borrow: it pushes a String,   *)
(* or overwrites the text of one of its Strings in place.                  *)
(***************************************************************************)
CallerPush(s) ==
    /\ Len(caller) < MaxLines
    /\ heap' = [heap EXCEPT ![CallerAddr(Len(caller) + 1)] = StrCell(s)]
    /\ caller' = Append(caller, CallerAddr(Len(caller) + 1))
    /\ UNCHANGED <<codes, appended, out>>

CallerWrite(i, s) ==
    /\ i <= Len(caller)
    /\ heap[caller[i]].s # s
    /\ heap' = [heap EXCEPT ![caller[i]] = StrCell(s)]
    /\ UNCHANGED <<codes, caller, appended, out>>

(***************************************************************************)
(* Inputs.                                                                 *)
(***************************************************************************)
LineTexts == {"a", "b"}

Ids == {1, 65536}
Severities == {2}
Facilities == {5}
Names == {"X"}

Next ==
    \/ \E h \in Handles, i \in Ids, s \in Severities, f \in Facilities, n \in Names :
          New(h, i, s, f, n)
    \/ \E h \in Handles, k \in 0..MaxLines : SetMessage(h, k)
    \/ \E h \in Handles, t \in Handles : Clone(h, t)
    \/ \E s \in LineTexts : CallerPush(s)
    \/ \E i \in 1..MaxLines, s \in LineTexts : CallerWrite(i, s)

Spec == Init /\ [][Next]_vars

(***************************************************************************)
(* The constructor and value() over the 32-bit inputs: the boundaries of   *)
(* each field, the first value past each boundary, and values with the     *)
(* sign bit set.  Two bindings, so that two codes can be compared.         *)
(***************************************************************************)
WideHandles == {1, 2}
WideIds == {0, 65535, 65536, -1, I32Min}
WideSeverities == {0, 1, 2, 3, 4, -1, I32Min}
WideFacilities == {0, 4095, 4096, -1, I32Min}
WideNames == {"X", ""}

NextNew ==
    \/ \E h \in WideHandles, i \in WideIds, s \in WideSeverities,
          f \in WideFacilities, n \in WideNames : New(h, i, s, f, n)
    \/ \E h \in WideHandles : Value(h)

SpecNew == Init /\ [][NextNew]_vars

(***************************************************************************)
(* Vocabulary of the properties.                                           *)
(***************************************************************************)
FitsId(x) == 0 <= x /\ x <= 65535
FitsSeverity(x) == 0 <= x /\ x <= 3
FitsFacility(x) == 0 <= x /\ x <= 4095
ValidArgs(a) == FitsId(a.id) /\ FitsSeverity(a.severity) /\ FitsFacility(a.facility)

Called(h) == codes[h].tag # "None"

\* x >> n on the 32-bit pattern of x, arithmetic and logical, 1 <= n <= 31
ShrA(x, n) == Low31(x) \div (2 ^ n) - (IF x < 0 THEN 2 ^ (31 - n) ELSE 0)
ShrL(x, n) == Low31(x) \div (2 ^ n) + (IF x < 0 THEN 2 ^ (31 - n) ELSE 0)

\* severity*2^30 + facility*2^16 + id reduced modulo 2^32 into -2^31 .. 2^31-1
Packed(a) ==
    (IF a.severity >= 2 THEN (a.severity - 4) * (2 ^ 30) ELSE a.severity * (2 ^ 30))
    + a.facility * (2 ^ 16) + a.id

IsPrefix(s, u) == Len(s) <= Len(u) /\ SubSeq(u, 1, Len(s)) = s

\* what the accessors of the ErrorCode bound to h return
View(hp, c) ==
    [id |-> id(c.obj), severity |-> severity(c.obj), facility |-> facility(c.obj),
     symbolic_name |-> symbolic_name(hp, c.obj), message |-> message(hp, c.obj),
     value |-> value(c.obj)]

(***************************************************************************)
(* C1.  Field-width invariant: every ErrorCode that exists has             *)
(* 0 <= id() <= 0xFFFF, 0 <= severity() <= 3 and 0 <= facility() <= 0xFFF; *)
(* an input with the sign bit set is rejected.                             *)
(***************************************************************************)
C1_FieldWidth ==
    \A h \in Handles :
        Live(h) => /\ FitsId(id(codes[h].obj))
                   /\ FitsSeverity(severity(codes[h].obj))
                   /\ FitsFacility(facility(codes[h].obj))

(***************************************************************************)
(* C2.  First-failure precedence: an id that does not fit 16 bits gives    *)
(* WrongId(id); otherwise a severity that does not fit 2 bits gives        *)
(* WrongSeverity(severity); otherwise a facility that does not fit 12 bits *)
(* gives WrongFacility(facility).                                          *)
(***************************************************************************)
C2_FirstFailure ==
    \A h \in Handles :
        Called(h) =>
            LET a == codes[h].args
                c == codes[h]
            IN  /\ ~FitsId(a.id) => c.tag = "WrongId" /\ c.err = a.id
                /\ FitsId(a.id) /\ ~FitsSeverity(a.severity) =>
                       c.tag = "WrongSeverity" /\ c.err = a.severity
                /\ FitsId(a.id) /\ FitsSeverity(a.severity) /\ ~FitsFacility(a.facility) =>
                       c.tag = "WrongFacility" /\ c.err = a.facility

(***************************************************************************)
(* C3.  Every valid triple is accepted: for id in [0, 0xFFFF], severity in *)
(* [0, 3] and facility in [0, 0xFFF], new returns Ok and the accessors of  *)
(* the new value return the arguments, with an empty message.              *)
(***************************************************************************)
C3_AcceptValid ==
    \A h \in Handles :
        Called(h) /\ ValidArgs(codes[h].args) =>
            /\ Live(h)
            /\ id(codes[h].obj) = codes[h].args.id
            /\ severity(codes[h].obj) = codes[h].args.severity
            /\ facility(codes[h].obj) = codes[h].args.facility
            /\ symbolic_name(heap, codes[h].obj) = codes[h].args.symbolic_name
            /\ message(heap, codes[h].obj) = <<>>

C3_Witness ==
    \E h \in Handles :
        /\ Live(h)
        /\ codes[h].args.id = 65535
        /\ codes[h].args.severity = 3
        /\ codes[h].args.facility = 4095

(***************************************************************************)
(* C4.  Packing formula: for a valid triple, value() is                    *)
(* severity*2^30 + facility*2^16 + id as a two's complement i32, negative  *)
(* exactly when severity is 2 or 3.                                        *)
(***************************************************************************)
C4_Packing ==
    \A h \in Handles :
        out[h].set /\ ValidArgs(codes[h].args) =>
            /\ out[h].v = Packed(codes[h].args)
            /\ (out[h].v < 0) <=> (codes[h].args.severity \in {2, 3})

C4_Witness ==
    \E h \in Handles :
        /\ out[h].set
        /\ ValidArgs(codes[h].args)
        /\ codes[h].args.severity = 3
        /\ codes[h].args.facility = 4095
        /\ codes[h].args.id = 65535
        /\ out[h].v < 0

(***************************************************************************)
(* C5.  Round trip: for a valid triple and v = value(), v & 0xFFFF = id,   *)
(* (v >> 16) & 0xFFF = facility and (v >> 30) & 3 = severity, with the     *)
(* shift arithmetic or logical.                                            *)
(***************************************************************************)
C5_RoundTrip ==
    \A h \in Handles :
        out[h].set /\ ValidArgs(codes[h].args) =>
            LET v == out[h].v
                a == codes[h].args
            IN  /\ BitAnd(v, 65535) = a.id
                /\ BitAnd(ShrA(v, 16), 4095) = a.facility
                /\ BitAnd(ShrL(v, 16), 4095) = a.facility
                /\ BitAnd(ShrA(v, 30), 3) = a.severity
                /\ BitAnd(ShrL(v, 30), 3) = a.severity

C5_Witness ==
    \E h \in Handles :
        /\ out[h].set
        /\ ValidArgs(codes[h].args)
        /\ codes[h].args.severity = 2
        /\ codes[h].args.facility = 4095
        /\ codes[h].args.id = 0
        /\ ShrA(out[h].v, 16) # ShrL(out[h].v, 16)

(***************************************************************************)
(* C6.  Message accumulation: message() is the concatenation of the slices *)
(* passed to set_message, in call order; across every step the old message *)
(* is a prefix of the new one.                                             *)
(***************************************************************************)
C6_Accumulate ==
    /\ [](\A h \in Handles : Live(h) => message(heap, codes[h].obj) = appended[h])
    /\ [][\A h \in Handles :
            Live(h) => IsPrefix(message(heap, codes[h].obj), message(heap', codes'[h].obj))]_vars

C6_Witness ==
    \E h \in Handles :
        /\ Live(h)
        /\ Len(message(heap, codes[h].obj)) > MaxLines
        /\ message(heap, codes[h].obj)[1] # message(heap, codes[h].obj)[2]
        /\ message(heap, codes[h].obj) = appended[h]

(***************************************************************************)
(* C7.  Reserved region: for every ErrorCode new accepts, bits 29 and 28   *)
(* of value() are 0, bits 31-30 hold severity, bits 27-16 hold facility    *)
(* and bits 15-0 hold id.                                                  *)
(***************************************************************************)
C7_ReservedZero ==
    \A h \in Handles :
        out[h].set =>
            LET v == out[h].v
            IN  /\ BitAnd(ShrL(v, 28), 3) = 0
                /\ ShrL(v, 30) = severity(codes[h].obj)
                /\ BitAnd(ShrL(v, 16), 4095) = facility(codes[h].obj)
                /\ BitAnd(v, 65535) = id(codes[h].obj)

(***************************************************************************)
(* C8.  Frame of set_message: across every step of a live ErrorCode, id(), *)
(* severity(), facility(), symbolic_name() and value() keep their results. *)
(***************************************************************************)
C8_Frame ==
    [][\A h \in Handles :
          Live(h) =>
              /\ codes'[h].tag = "Ok"
              /\ id(codes'[h].obj) = id(codes[h].obj)
              /\ severity(codes'[h].obj) = severity(codes[h].obj)
              /\ facility(codes'[h].obj) = facility(codes[h].obj)
              /\ symbolic_name(heap', codes'[h].obj) = symbolic_name(heap, codes[h].obj)
              /\ value(codes'[h].obj) = value(codes[h].obj)]_vars

C8_Witness ==
    \E h \in Handles :
        /\ Live(h)
        /\ Len(message(heap, codes[h].obj)) = MaxMessage
        /\ symbolic_name(heap, codes[h].obj) = codes[h].args.symbolic_name
        /\ value(codes[h].obj) = Packed(codes[h].args)

(***************************************************************************)
(* C9.  Instance independence: a step that changes the message of one      *)
(* ErrorCode leaves every accessor of every other ErrorCode unchanged, and *)
(* a step that changes the caller's lines leaves every accessor of every   *)
(* ErrorCode unchanged.                                                    *)
(***************************************************************************)
C9_Independent ==
    [][/\ \A h \in Handles, t \in Handles :
             /\ h # t
             /\ Live(h)
             /\ Live(t)
             /\ message(heap', codes'[h].obj) # message(heap, codes[h].obj)
             => View(heap', codes'[t]) = View(heap, codes[t])
       /\ Texts(heap', caller') # Texts(heap, caller) =>
             \A h \in Handles : Live(h) => View(heap', codes'[h]) = View(heap, codes[h])]_vars

C9_Witness ==
    \E h \in Handles, t \in Handles :
        /\ h # t
        /\ Live(h)
        /\ Live(t)
        /\ message(heap, codes[t].obj) # <<>>
        /\ IsPrefix(message(heap, codes[t].obj), message(heap, codes[h].obj))
        /\ message(heap, codes[h].obj) # message(heap, codes[t].obj)
        /\ caller # <<>>
        /\ heap[caller[1]].s # message(heap, codes[h].obj)[1]

(***************************************************************************)
(* C10.  Injectivity: two accepted ErrorCodes with equal value() have      *)
(* equal id(), severity() and facility().                                  *)
(***************************************************************************)
C10_Injective ==
    \A h \in Handles, t \in Handles :
        out[h].set /\ out[t].set /\ out[h].v = out[t].v =>
            /\ id(codes[h].obj) = id(codes[t].obj)
            /\ severity(codes[h].obj) = severity(codes[t].obj)
            /\ facility(codes[h].obj) = facility(codes[t].obj)

====
